---- MODULE Spec2Model ----
(***************************************************************************)
(* State-machine model of srl-zoo's supervised baseline                    *)
(* (baselines/supervised.py: SupervisedLearning and its CLI), of the       *)
(* composite model builder (models/forward_inverse.py: SRLModules and its  *)
(* three head mixins) and of the train/validation split made in learn.     *)
(*                                                                         *)
(* Three specifications share the module:                                  *)
(*   Spec        one CLI run of baselines/supervised.py, learn included    *)
(*   SpecModules construction of an SRLModules object and calls on it      *)
(*   SpecSplit   repeated train_test_split calls on one dataset            *)
(***************************************************************************)
EXTENDS Integers, Sequences, FiniteSets, TLC

VARIABLES
    \* ---- baselines/supervised.py: the CLI run and SupervisedLearning.learn
    pc,             \* position of the run in __main__ / learn
    N_EPOCHS,       \* --epochs
    DISPLAY_PLOTS,  \* not --no-plots
    model_type,     \* --model_type
    py3,            \* the interpreter is Python 3 (the file supports 2 and 3)
    lenTrain,       \* len(train_loader)
    lenVal,         \* len(val_loader)
    epoch,          \* loop variable of "for epoch in range(N_EPOCHS)"
    batch,          \* minibatches of the current pass already processed
    training,       \* self.model.training (TRUE: train mode, FALSE: eval mode)
    params,         \* self.model.state_dict(), as a version stamp
    best_error,     \* best_error of learn
    ckpt,           \* the file <log_folder>/srl_supervised_model.pth
    written,        \* output artifacts written by this run (checkpoint apart)
    valLosses,      \* history: val_loss of each finished epoch
    endParams,      \* history: params at the end of each finished epoch
    savedEpochs,    \* history: epochs (1-based) in which th.save ran
    trainModes,     \* history: model modes in which a training batch ran
    valModes,       \* history: model modes in which a validation batch ran
    paramWriters,   \* history: steps inside the epoch loop that changed params
    \* ---- models/forward_inverse.py: SRLModules
    ctor,           \* outcome of SRLModules.__init__: "idle" before the call
    args,           \* the arguments of the constructor call
    obj,            \* the object under construction / constructed
    call,           \* the last head / encoder call made on obj and its outcome
    \* ---- train_test_split in learn
    nSamples,       \* len(true_states)
    rngTable,       \* permutation RandomState(seed) yields, once drawn
    split,          \* outcome of the last split
    splitLog        \* history: results obtained per seed

mainVars == <<pc, N_EPOCHS, DISPLAY_PLOTS, model_type, py3, lenTrain, lenVal,
              epoch, batch, training, params, best_error, ckpt, written,
              valLosses, endParams, savedEpochs, trainModes, valModes,
              paramWriters>>
modVars == <<ctor, args, obj, call>>
splitVars == <<nSamples, rngTable, split, splitLog>>
vars == <<mainVars, modVars, splitVars>>

(***************************************************************************)
(* Bounds of the model.                                                    *)
(***************************************************************************)
MaxEpochs == 3
MaxBatches == 2
MaxLoss == 2
MaxStateDim == 4
MaxActionDim == 2
RatioDen == 4
MaxSamples == 4
MaxSplits == 2

(***************************************************************************)
(* Floating-point losses.  A loss is a non-negative finite value           *)
(* (0..MaxLoss), +infinity or NaN.  Every ordered comparison with NaN is   *)
(* false; infinity is above every finite value and not below itself.       *)
(***************************************************************************)
NaN == -1
Inf == MaxLoss + 1
Losses == (0..MaxLoss) \cup {Inf, NaN}

Less(a, b) == a # NaN /\ b # NaN /\ a < b

EPOCH_FLAG == 1

\* a variant of line 125 that also saves on a tie (val_loss <= best_error)
ImprovesOrTies(val_loss, best) == val_loss # NaN /\ best # NaN /\ val_loss <= best

\* supervised.py line 125: if val_loss < best_error
Improves(val_loss, best) == Less(val_loss, best)

(***************************************************************************)
(* Parameter states and the checkpoint file.                               *)
(***************************************************************************)
InitialParams == [run |-> "this", ver |-> 0]
EarlierRunParams == [run |-> "earlier", ver |-> 0]
NoCheckpoint == [exists |-> FALSE, state |-> EarlierRunParams]
StaleCheckpoint == [exists |-> TRUE, state |-> EarlierRunParams]

\* optimizer.step(): the parameters become a state not seen before in the run
OptimizerStep(p) == [p EXCEPT !.ver = @ + 1]

\* th.save(self.model.state_dict(), best_model_path)
Saved(p) == [exists |-> TRUE, state |-> p]

ModelTypes == {"resnet", "mlp", "quux"}
Artifacts == {"exp_config.json", "learned_states", "learned_states.png"}

(***************************************************************************)
(* BaseLearner.predStatesWithDataLoader (models/base_learner.py): runs the *)
(* owned model over every batch of the loader in evaluation mode and       *)
(* returns the concatenated predictions; the parameters are only read.     *)
(* m is the model as [training, params].                                   *)
(***************************************************************************)
predStatesWithDataLoader(m) == [m EXCEPT !.training = FALSE]

Model == [training |-> training, params |-> params]

IdleModules ==
    /\ ctor = "idle"
    /\ args = <<>>
    /\ obj = <<>>
    /\ call = <<>>

IdleSplit ==
    /\ nSamples = 0
    /\ rngTable = <<>>
    /\ split = <<>>
    /\ splitLog = <<>>

(***************************************************************************)
(* Spec: one run of "python -m baselines.supervised".  The initial state   *)
(* is the run after argument parsing and createFolder (lines 160-173); the *)
(* log folder is per dataset, so it may hold an earlier run's checkpoint.  *)
(***************************************************************************)
Init ==
    /\ pc = "load_data"
    /\ N_EPOCHS \in 0..MaxEpochs
    /\ DISPLAY_PLOTS \in BOOLEAN
    /\ model_type \in ModelTypes
    /\ py3 \in BOOLEAN
    /\ lenTrain \in 1..MaxBatches
    /\ lenVal \in 1..MaxBatches
    /\ epoch = 0
    /\ batch = 0
    /\ training = TRUE
    /\ params = InitialParams
    /\ best_error = Inf
    /\ ckpt \in {NoCheckpoint, StaleCheckpoint}
    /\ written = {}
    /\ valLosses = <<>>
    /\ endParams = <<>>
    /\ savedEpochs = {}
    /\ trainModes = {}
    /\ valModes = {}
    /\ paramWriters = {}
    /\ IdleModules
    /\ IdleSplit

\* lines 175-180: np.load of the two archives; a missing archive is fatal
LoadData ==
    /\ pc = "load_data"
    /\ \E ok \in BOOLEAN : pc' = IF ok THEN "write_config" ELSE "failed"
    /\ UNCHANGED <<N_EPOCHS, DISPLAY_PLOTS, model_type, py3, lenTrain, lenVal,
                   epoch, batch, training, params, best_error, ckpt, written,
                   valLosses, endParams, savedEpochs, trainModes, valModes,
                   paramWriters>>
    /\ UNCHANGED <<modVars, splitVars>>

\* lines 182-184: open(..., 'wb') creates exp_config.json, json.dump writes
\* str to it: on Python 3 a binary file rejects str with a TypeError
WriteConfig ==
    /\ pc = "write_config"
    /\ written' = written \cup {"exp_config.json"}
    /\ pc' = IF py3 THEN "failed" ELSE "construct"
    /\ UNCHANGED <<N_EPOCHS, DISPLAY_PLOTS, model_type, py3, lenTrain, lenVal,
                   epoch, batch, training, params, best_error, ckpt,
                   valLosses, endParams, savedEpochs, trainModes, valModes,
                   paramWriters>>
    /\ UNCHANGED <<modVars, splitVars>>

\* lines 42-59 (called at 187-189): SupervisedLearning.__init__
Construct ==
    /\ pc = "construct"
    /\ IF model_type \in {"resnet", "mlp"}
         THEN /\ pc' = "learn"
              /\ params' = InitialParams
              /\ training' = TRUE
         ELSE /\ pc' = "failed"     \* raise ValueError("Unknown model: ...")
              /\ UNCHANGED <<params, training>>
    /\ UNCHANGED <<N_EPOCHS, DISPLAY_PLOTS, model_type, py3, lenTrain, lenVal,
                   epoch, batch, best_error, ckpt, written,
                   valLosses, endParams, savedEpochs, trainModes, valModes,
                   paramWriters>>
    /\ UNCHANGED <<modVars, splitVars>>

\* lines 69-89: split, loaders, best_error = np.inf, self.model.train()
LearnBegin ==
    /\ pc = "learn"
    /\ best_error' = Inf
    /\ training' = TRUE
    /\ epoch' = 0
    /\ pc' = "epoch"
    /\ UNCHANGED <<N_EPOCHS, DISPLAY_PLOTS, model_type, py3, lenTrain, lenVal,
                   batch, params, ckpt, written,
                   valLosses, endParams, savedEpochs, trainModes, valModes,
                   paramWriters>>
    /\ UNCHANGED <<modVars, splitVars>>

\* lines 90-94: next iteration of "for epoch in range(N_EPOCHS)"
EpochBegin ==
    /\ pc = "epoch"
    /\ epoch < N_EPOCHS
    /\ batch' = 0
    /\ pc' = "train"
    /\ UNCHANGED <<N_EPOCHS, DISPLAY_PLOTS, model_type, py3, lenTrain, lenVal,
                   epoch, training, params, best_error, ckpt, written,
                   valLosses, endParams, savedEpochs, trainModes, valModes,
                   paramWriters>>
    /\ UNCHANGED <<modVars, splitVars>>

\* lines 95-105: one training minibatch, forward pass and optimizer step
TrainBatch ==
    /\ pc = "train"
    /\ batch < lenTrain
    /\ trainModes' = trainModes \cup {training}
    /\ params' = OptimizerStep(params)
    /\ paramWriters' = paramWriters \cup {"optimizer.step"}
    /\ batch' = batch + 1
    /\ UNCHANGED <<pc, N_EPOCHS, DISPLAY_PLOTS, model_type, py3, lenTrain,
                   lenVal, epoch, training, best_error, ckpt, written,
                   valLosses, endParams, savedEpochs, valModes>>
    /\ UNCHANGED <<modVars, splitVars>>

\* lines 106-111: the training loader is exhausted; self.model.eval()
BeginValidation ==
    /\ pc = "train"
    /\ batch = lenTrain
    /\ training' = FALSE
    /\ batch' = 0
    /\ pc' = "val"
    /\ UNCHANGED <<N_EPOCHS, DISPLAY_PLOTS, model_type, py3, lenTrain, lenVal,
                   epoch, params, best_error, ckpt, written,
                   valLosses, endParams, savedEpochs, trainModes, valModes,
                   paramWriters>>
    /\ UNCHANGED <<modVars, splitVars>>

\* lines 113-119: one validation minibatch, forward pass only
ValBatch ==
    /\ pc = "val"
    /\ batch < lenVal
    /\ valModes' = valModes \cup {training}
    /\ batch' = batch + 1
    /\ UNCHANGED <<pc, N_EPOCHS, DISPLAY_PLOTS, model_type, py3, lenTrain,
                   lenVal, epoch, training, params, best_error, ckpt, written,
                   valLosses, endParams, savedEpochs, trainModes,
                   paramWriters>>
    /\ UNCHANGED <<modVars, splitVars>>

\* lines 95 and 113: a batch loads its images on demand; an unreadable image
\* propagates and ends the run
BatchLoadFails ==
    /\ pc \in {"train", "val"}
    /\ batch < IF pc = "train" THEN lenTrain ELSE lenVal
    /\ pc' = "failed"
    /\ UNCHANGED <<N_EPOCHS, DISPLAY_PLOTS, model_type, py3, lenTrain, lenVal,
                   epoch, batch, training, params, best_error, ckpt, written,
                   valLosses, endParams, savedEpochs, trainModes, valModes,
                   paramWriters>>
    /\ UNCHANGED <<modVars, splitVars>>

\* lines 121-127: val_loss of the epoch, train mode restored, "Save best model"
EndValidation ==
    /\ pc = "val"
    /\ batch = lenVal
    /\ \E val_loss \in Losses :
         /\ valLosses' = Append(valLosses, val_loss)
         /\ IF Improves(val_loss, best_error)
              THEN /\ best_error' = val_loss
                   /\ ckpt' = Saved(params)
                   /\ savedEpochs' = savedEpochs \cup {epoch + 1}
              ELSE UNCHANGED <<best_error, ckpt, savedEpochs>>
    /\ endParams' = Append(endParams, params)
    /\ training' = TRUE
    /\ pc' = "report"
    /\ UNCHANGED <<N_EPOCHS, DISPLAY_PLOTS, model_type, py3, lenTrain, lenVal,
                   epoch, batch, params, written, trainModes, valModes,
                   paramWriters>>
    /\ UNCHANGED <<modVars, splitVars>>

\* lines 129-137: the epoch's report and, with plots on, the plot of
\* self.predStatesWithDataLoader(data_loader); then the next epoch
Report ==
    /\ pc = "report"
    /\ IF (epoch + 1) % EPOCH_FLAG = 0 /\ DISPLAY_PLOTS
         THEN /\ training' = predStatesWithDataLoader(Model).training
              /\ params' = predStatesWithDataLoader(Model).params
              /\ paramWriters' = IF params' # params
                                   THEN paramWriters \cup {"plot"}
                                   ELSE paramWriters
         ELSE UNCHANGED <<training, params, paramWriters>>
    /\ epoch' = epoch + 1
    /\ pc' = "epoch"
    /\ UNCHANGED <<N_EPOCHS, DISPLAY_PLOTS, model_type, py3, lenTrain, lenVal,
                   batch, best_error, ckpt, written,
                   valLosses, endParams, savedEpochs, trainModes, valModes>>
    /\ UNCHANGED <<modVars, splitVars>>

\* lines 138-144: the loop is over; th.load(best_model_path) raises when the
\* file does not exist, else its content is loaded and the states predicted
FinishLearn ==
    /\ pc = "epoch"
    /\ epoch >= N_EPOCHS
    /\ IF ckpt.exists
         THEN LET loaded == [training |-> training, params |-> ckpt.state]
              IN  /\ params' = predStatesWithDataLoader(loaded).params
                  /\ training' = predStatesWithDataLoader(loaded).training
                  /\ pc' = "save_states"
         ELSE /\ pc' = "failed"
              /\ UNCHANGED <<params, training>>
    /\ UNCHANGED <<N_EPOCHS, DISPLAY_PLOTS, model_type, py3, lenTrain, lenVal,
                   epoch, batch, best_error, ckpt, written,
                   valLosses, endParams, savedEpochs, trainModes, valModes,
                   paramWriters>>
    /\ UNCHANGED <<modVars, splitVars>>

\* line 191: srl.saveStates(...) of BaseLearner; an I/O failure is fatal
SaveStates ==
    /\ pc = "save_states"
    /\ \E ok \in BOOLEAN :
         IF ok THEN /\ written' = written \cup {"learned_states"}
                    /\ pc' = "final_plot"
               ELSE /\ pc' = "failed"
                    /\ UNCHANGED written
    /\ UNCHANGED <<N_EPOCHS, DISPLAY_PLOTS, model_type, py3, lenTrain, lenVal,
                   epoch, batch, training, params, best_error, ckpt,
                   valLosses, endParams, savedEpochs, trainModes, valModes,
                   paramWriters>>
    /\ UNCHANGED <<modVars, splitVars>>

\* lines 193-198: the final plot saved to learned_states.png, then exit
FinalPlot ==
    /\ pc = "final_plot"
    /\ \E ok \in BOOLEAN :
         IF ok THEN /\ written' = written \cup {"learned_states.png"}
                    /\ pc' = "done"
               ELSE /\ pc' = "failed"
                    /\ UNCHANGED written
    /\ UNCHANGED <<N_EPOCHS, DISPLAY_PLOTS, model_type, py3, lenTrain, lenVal,
                   epoch, batch, training, params, best_error, ckpt,
                   valLosses, endParams, savedEpochs, trainModes, valModes,
                   paramWriters>>
    /\ UNCHANGED <<modVars, splitVars>>

Next ==
    \/ LoadData
    \/ WriteConfig
    \/ Construct
    \/ LearnBegin
    \/ EpochBegin
    \/ TrainBatch
    \/ BeginValidation
    \/ ValBatch
    \/ BatchLoadFails
    \/ EndValidation
    \/ Report
    \/ FinishLearn
    \/ SaveStates
    \/ FinalPlot

Spec == Init /\ [][Next]_vars

(***************************************************************************)
(* Properties of SupervisedLearning.learn and of the CLI run (Spec).       *)
(***************************************************************************)
SetMin(S) == CHOOSE x \in S : \A y \in S : x <= y

Finished == 1..Len(valLosses)

\* the best validation loss seen in epochs 1..k, infinity before any epoch
BestSoFar(k) == SetMin({Inf} \cup {valLosses[e] : e \in {f \in 1..k : valLosses[f] # NaN}})

\* the epochs whose validation loss is strictly below the best seen before
ImprovingEpochs == {e \in Finished : Less(valLosses[e], BestSoFar(e - 1))}

\* the epochs whose loss is the lowest recorded so far (NaN is no loss value)
LowestEpochs ==
    {e \in Finished : /\ valLosses[e] # NaN
                      /\ \A f \in Finished : valLosses[f] # NaN => valLosses[e] <= valLosses[f]}

\* the epochs whose loss compares strictly below infinity
BelowInfEpochs == {e \in Finished : Less(valLosses[e], Inf)}

LearnCompleted == pc \in {"save_states", "final_plot", "done"}

\* C1 as stated: after every epoch the checkpoint file holds the parameters of
\* the earliest epoch with the lowest validation loss recorded so far in this
\* run, and the file was written exactly in the epochs whose loss was strictly
\* below the best seen before (initially infinity).
C1_Original ==
    Len(valLosses) >= 1 =>
        /\ LowestEpochs # {}
        /\ ckpt = Saved(endParams[SetMin(LowestEpochs)])
        /\ savedEpochs = ImprovingEpochs

\* C1 amended: the file is written exactly in the epochs whose validation loss
\* is strictly below the best seen before (initially infinity); once some
\* epoch's loss has compared strictly below infinity the file holds the
\* parameters of the earliest epoch with the lowest loss so far, and until
\* then this run has not written the file.
C1_CheckpointIsBestSoFar ==
    /\ savedEpochs = ImprovingEpochs
    /\ IF BelowInfEpochs = {}
         THEN ckpt \in {NoCheckpoint, StaleCheckpoint}
         ELSE /\ SetMin(LowestEpochs) \in BelowInfEpochs
              /\ ckpt = Saved(endParams[SetMin(LowestEpochs)])

\* C1 witness: an epoch tied with an earlier saved epoch and was not saved
C1_Witness ==
    /\ pc = "report"
    /\ \E e \in savedEpochs : \E f \in Finished :
         /\ e < f
         /\ valLosses[f] = valLosses[e]
         /\ f \notin savedEpochs
         /\ ckpt = Saved(endParams[e])

\* C2 as stated: when learn completes, the parameters reloaded into the model
\* are those of the best-validation-loss epoch of this same run, never those
\* of a checkpoint an earlier run left in the log folder.
C2_Original ==
    LearnCompleted =>
        /\ params.run = "this"
        /\ \E e \in LowestEpochs : params = endParams[e]

\* C3 as stated: a run that completes has written every artifact, and a run
\* that fails has written none of them, a checkpoint apart.
C3_Original ==
    /\ pc = "done" => (Artifacts \subseteq written /\ ckpt.exists)
    /\ pc = "failed" => written = {}

\* C10 as stated: every training minibatch runs with the model in training
\* mode, every validation minibatch in evaluation mode, and inside the epoch
\* loop only the optimizer step of a training minibatch changes the parameters.
C10_Original ==
    /\ trainModes \subseteq {TRUE}
    /\ valModes \subseteq {FALSE}
    /\ paramWriters \subseteq {"optimizer.step"}

(***************************************************************************)
(* models/forward_inverse.py.  Tensors are modelled by their width (second *)
(* dimension); a linear layer by its input and output widths; applying a   *)
(* layer to an input of another width raises a RuntimeError.  ratio is the *)
(* fraction num/den; these fractions and the products state_dim * ratio    *)
(* are exact in binary floating point for den a power of two.              *)
(***************************************************************************)
Heads == {"forward", "inverse", "reward"}
HeadNets == {"forward_net", "inverse_net", "reward_net"}
NetOf(h) == IF h = "forward" THEN "forward_net"
            ELSE IF h = "inverse" THEN "inverse_net" ELSE "reward_net"

\* losses=None, the constructor default (line 102)
NoneLosses == {"<None>"}
LossArgs == (SUBSET Heads) \cup {NoneLosses}

KnownSRLModelTypes == {"custom_cnn", "linear", "mlp", "resnet", "ae"}
SRLModelTypes == KnownSRLModelTypes \cup {"quux"}

Ratios == {[num |-> n, den |-> RatioDen] : n \in 1..RatioDen}

\* int(state_dim * ratio)
IntRatio(sd, r) == (sd * r.num) \div r.den

NoLayer == [in |-> 0, out |-> 0]
Linear(i, o) == [in |-> i, out |-> o]

\* the object before __init__ has run: no attribute at all
BlankObject ==
    [initialized |-> FALSE, modules |-> {}, hasDims |-> FALSE,
     state_dim |-> 0, action_dim |-> 0, ratio |-> [num |-> 1, den |-> 1],
     forward_net |-> NoLayer, inverse_net |-> NoLayer, reward_net |-> NoLayer,
     model_type |-> ""]

\* BaseModelSRL.__init__ (models/models.py), the bare encoder base:
\* nn.Module.__init__, which (re)creates the empty sub-module registry
BaseModelSRL_init(o) == [o EXCEPT !.initialized = TRUE, !.modules = {}]

\* lines 70-75: super(BaseRewardModel, self).__init__()
BaseRewardModel_init(o) == BaseModelSRL_init(o)

\* lines 43-48: super(BaseInverseModel, self).__init__(); in the MRO of
\* SRLModules the class after BaseInverseModel is BaseRewardModel
BaseInverseModel_init(o) == BaseRewardModel_init(o)

\* lines 14-19: super(BaseForwardModel, self).__init__(); in the MRO of
\* SRLModules the class after BaseForwardModel is BaseInverseModel
BaseForwardModel_init(o) == BaseInverseModel_init(o)

\* lines 21-25
initForwardNet(o, sd, ad, r) ==
    [o EXCEPT !.hasDims = TRUE, !.state_dim = sd, !.action_dim = ad, !.ratio = r,
              !.forward_net = Linear(IntRatio(sd, r) + ad, sd),
              !.modules = @ \cup {"forward_net"}]

\* a variant of initInverseNet sized from int(state_dim * ratio * 2)
initInverseNetDoubledInside(o, sd, ad, r) ==
    [o EXCEPT !.hasDims = TRUE, !.state_dim = sd, !.action_dim = ad, !.ratio = r,
              !.inverse_net = Linear((sd * r.num * 2) \div r.den, ad),
              !.modules = @ \cup {"inverse_net"}]

\* lines 50-54
initInverseNet(o, sd, ad, r) ==
    [o EXCEPT !.hasDims = TRUE, !.state_dim = sd, !.action_dim = ad, !.ratio = r,
              !.inverse_net = Linear(IntRatio(sd, r) * 2, ad),
              !.modules = @ \cup {"inverse_net"}]

\* lines 77-85: Linear(int(state_dim * ratio), 2), ReLU, Linear(2, 2), ReLU,
\* Linear(2, 2); the Sequential as its first input and last output width
initRewardNet(o, sd, ad, r) ==
    [o EXCEPT !.hasDims = TRUE, !.state_dim = sd, !.action_dim = ad, !.ratio = r,
              !.reward_net = Linear(IntRatio(sd, r), 2),
              !.modules = @ \cup {"reward_net"}]

\* a variant of InitHeads: each head's initializer followed at once by its
\* network construction
InitHeadsInterleaved(o, losses, sd, ad, r) ==
    LET a == IF "forward" \in losses
               THEN initForwardNet(BaseForwardModel_init(o), sd, ad, r) ELSE o
        b == IF "inverse" \in losses
               THEN initInverseNet(BaseInverseModel_init(a), sd, ad, r) ELSE a
    IN  IF "reward" \in losses
          THEN initRewardNet(BaseRewardModel_init(b), sd, ad, r) ELSE b

\* lines 114-130: the initializers of the requested heads, then their networks
InitHeads(o, losses, sd, ad, r) ==
    LET a == IF "forward" \in losses THEN BaseForwardModel_init(o) ELSE o
        b == IF "inverse" \in losses THEN BaseInverseModel_init(a) ELSE a
        c == IF "reward" \in losses THEN BaseRewardModel_init(b) ELSE b
        d == IF "forward" \in losses THEN initForwardNet(c, sd, ad, r) ELSE c
        e == IF "inverse" \in losses THEN initInverseNet(d, sd, ad, r) ELSE d
    IN  IF "reward" \in losses THEN initRewardNet(e, sd, ad, r) ELSE e

\* lines 102-147: SRLModules.__init__(state_dim, action_dim, ratio, cuda,
\* losses, model_type) as [status, obj]; a.gpu says whether the machine has a
\* CUDA device, without which every .cuda() call raises
SRLModules_init(a) ==
    LET o0 == [BlankObject EXCEPT !.model_type = a.model_type]      \* line 108
    IN  IF a.losses = NoneLosses
          THEN [status |-> "TypeError", obj |-> o0]      \* line 110: x in None
          ELSE
    LET bool_ == /\ "forward" \notin a.losses
                 /\ "inverse" \notin a.losses
                 /\ "reward" \notin a.losses
        o1 == IF bool_
                THEN BaseModelSRL_init(o0)
                ELSE InitHeads(o0, a.losses, a.state_dim, a.action_dim, a.ratio)
        o2 == IF a.model_type \in KnownSRLModelTypes
                THEN [o1 EXCEPT !.modules = @ \cup {"nn"}]
                ELSE o1                             \* no else branch: no self.nn
    IN  IF a.model_type = "ae" /\ ~a.gpu
          THEN [status |-> "CudaError", obj |-> o2]      \* lines 143-144
        ELSE IF a.cuda /\ "nn" \notin o2.modules
          THEN [status |-> "AttributeError", obj |-> o2] \* line 147
        ELSE IF a.cuda /\ ~a.gpu
          THEN [status |-> "CudaError", obj |-> o2]      \* line 147
        ELSE [status |-> "ok", obj |-> o2]

CtorArgs ==
    [state_dim : 1..MaxStateDim, action_dim : 1..MaxActionDim, ratio : Ratios,
     cuda : BOOLEAN, gpu : BOOLEAN, losses : LossArgs, model_type : SRLModelTypes]

\* the outcome of a call on the object
Raised(op, err, w, w2) ==
    [op |-> op, ok |-> FALSE, err |-> err, stateWidth |-> w, nextWidth |-> w2,
     used |-> 0, fed |-> 0, width |-> 0, path |-> ""]
Returned(op, w, w2, used, fed, width, path) ==
    [op |-> op, ok |-> TRUE, err |-> "", stateWidth |-> w, nextWidth |-> w2,
     used |-> used, fed |-> fed, width |-> width, path |-> path]

\* state[:, :k] of a batch of width w
SliceWidth(w, k) == IF k < w THEN k ELSE w

\* lines 30-39: forwardModel(state, action), state of width w
forwardModel(o, w) ==
    IF ~o.hasDims THEN Raised("forwardModel", "AttributeError", w, 0)
    ELSE
    LET used == SliceWidth(w, IntRatio(o.state_dim, o.ratio))
        concat == used + o.action_dim      \* encodeOneHot: width action_dim
    IN  IF "forward_net" \notin o.modules
          THEN Raised("forwardModel", "AttributeError", w, 0)
        ELSE IF concat # o.forward_net.in
          THEN Raised("forwardModel", "RuntimeError", w, 0)
        ELSE IF w # o.forward_net.out /\ w # 1 /\ o.forward_net.out # 1
          THEN Raised("forwardModel", "RuntimeError", w, 0)  \* state + delta
        ELSE Returned("forwardModel", w, 0, used, concat,
                      IF w > o.forward_net.out THEN w ELSE o.forward_net.out, "")

\* lines 59-66: inverseModel(state, next_state), of widths w and w2
inverseModel(o, w, w2) ==
    IF "inverse_net" \notin o.modules
      THEN Raised("inverseModel", "AttributeError", w, w2)
    ELSE
    LET k == IntRatio(o.state_dim, o.ratio)
        concat == SliceWidth(w, k) + SliceWidth(w2, k)
    IN  IF concat # o.inverse_net.in
          THEN Raised("inverseModel", "RuntimeError", w, w2)
          ELSE Returned("inverseModel", w, w2, SliceWidth(w, k), concat,
                        o.inverse_net.out, "")

\* lines 90-98: rewardModel(state): the whole state is fed to reward_net
rewardModel(o, w) ==
    IF "reward_net" \notin o.modules
      THEN Raised("rewardModel", "AttributeError", w, 0)
    ELSE IF w # o.reward_net.in
      THEN Raised("rewardModel", "RuntimeError", w, 0)
    ELSE Returned("rewardModel", w, 0, w, w, o.reward_net.out, "")

\* lines 159-164: forward(x)
forward(o) ==
    IF "nn" \notin o.modules THEN Raised("forward", "AttributeError", 0, 0)
    ELSE IF o.model_type = "ae"
      THEN Returned("forward", 0, 0, 0, 0, 0, "nn.forward(x)")
    ELSE IF o.model_type = "linear" \/ o.model_type = "mlp"
      THEN Returned("forward", 0, 0, 0, 0, 0, "nn(x.contiguous())")
    ELSE Returned("forward", 0, 0, 0, 0, 0, "nn(x)")

\* lines 149-157: getStates(observations)
getStates(o) ==
    IF o.model_type = "ae"
      THEN IF "nn" \notin o.modules
             THEN Raised("getStates", "AttributeError", 0, 0)
             ELSE Returned("getStates", 0, 0, 0, 0, 0, "nn.encode(x)")
      ELSE [forward(o) EXCEPT !.op = "getStates"]

IdleMain ==
    /\ pc = "idle"
    /\ N_EPOCHS = 0
    /\ DISPLAY_PLOTS = FALSE
    /\ model_type = "resnet"
    /\ py3 = FALSE
    /\ lenTrain = 1
    /\ lenVal = 1
    /\ epoch = 0
    /\ batch = 0
    /\ training = TRUE
    /\ params = InitialParams
    /\ best_error = Inf
    /\ ckpt = NoCheckpoint
    /\ written = {}
    /\ valLosses = <<>>
    /\ endParams = <<>>
    /\ savedEpochs = {}
    /\ trainModes = {}
    /\ valModes = {}
    /\ paramWriters = {}

(***************************************************************************)
(* SpecModules: one SRLModules(...) call, then any calls on the object it  *)
(* returned.                                                               *)
(***************************************************************************)
InitModules ==
    /\ IdleMain
    /\ IdleModules
    /\ IdleSplit

NewSRLModules ==
    /\ ctor = "idle"
    /\ \E a \in CtorArgs :
         /\ args' = a
         /\ ctor' = SRLModules_init(a).status
         /\ obj' = SRLModules_init(a).obj
    /\ UNCHANGED call
    /\ UNCHANGED <<mainVars, splitVars>>

CallForwardModel ==
    /\ ctor = "ok"
    /\ \E w \in 1..MaxStateDim : call' = forwardModel(obj, w)
    /\ UNCHANGED <<ctor, args, obj>>
    /\ UNCHANGED <<mainVars, splitVars>>

CallInverseModel ==
    /\ ctor = "ok"
    /\ \E w \in 1..MaxStateDim, w2 \in 1..MaxStateDim : call' = inverseModel(obj, w, w2)
    /\ UNCHANGED <<ctor, args, obj>>
    /\ UNCHANGED <<mainVars, splitVars>>

CallRewardModel ==
    /\ ctor = "ok"
    /\ \E w \in 1..MaxStateDim : call' = rewardModel(obj, w)
    /\ UNCHANGED <<ctor, args, obj>>
    /\ UNCHANGED <<mainVars, splitVars>>

CallForward ==
    /\ ctor = "ok"
    /\ call' = forward(obj)
    /\ UNCHANGED <<ctor, args, obj>>
    /\ UNCHANGED <<mainVars, splitVars>>

CallGetStates ==
    /\ ctor = "ok"
    /\ call' = getStates(obj)
    /\ UNCHANGED <<ctor, args, obj>>
    /\ UNCHANGED <<mainVars, splitVars>>

NextModules ==
    \/ NewSRLModules
    \/ CallForwardModel
    \/ CallInverseModel
    \/ CallRewardModel
    \/ CallForward
    \/ CallGetStates

SpecModules == InitModules /\ [][NextModules]_vars

(***************************************************************************)
(* Properties of SRLModules (SpecModules).                                 *)
(***************************************************************************)
Constructed == ctor # "idle"
Called(op) == ctor = "ok" /\ call # <<>> /\ call.op = op

\* the arguments other than losses are usable: a known architecture, and a
\* CUDA device when the call asks for one
OtherArgsValid(a) ==
    /\ a.model_type \in KnownSRLModelTypes
    /\ (a.cuda \/ a.model_type = "ae") => a.gpu

\* floor(state_dim * ratio), stated without the division of IntRatio
FloorRatio(sd, r) ==
    CHOOSE k \in 0..sd : k * r.den <= sd * r.num /\ (k + 1) * r.den > sd * r.num

\* C4 as stated: constructing SRLModules with the requested-loss set absent
\* (the default, None) or empty succeeds and yields a plain encoder with no
\* forward, inverse or reward head.
C4_Original ==
    (Constructed /\ args.losses \in {NoneLosses, {}} /\ OtherArgsValid(args)) =>
        /\ ctor = "ok"
        /\ obj.modules \cap HeadNets = {}

\* C5: for every subset S of {forward, inverse, reward} passed as losses,
\* construction succeeds and exactly the heads in S exist afterwards, and a
\* call of forwardModel, inverseModel or rewardModel for a head not in S
\* raises an error instead of returning a value.
C5_ExactlyRequestedHeads ==
    /\ (Constructed /\ args.losses # NoneLosses /\ OtherArgsValid(args)) => ctor = "ok"
    /\ ctor = "ok" => obj.modules \cap HeadNets = {NetOf(h) : h \in args.losses}
    /\ \A h \in Heads :
         (Called(h \o "Model") /\ h \notin args.losses) => ~call.ok

\* C5 witness: all three heads were requested and exist, and the forward head
\* answered a call
C5_WitnessAllHeads ==
    /\ Called("forwardModel")
    /\ args.losses = Heads
    /\ obj.modules \cap HeadNets = HeadNets
    /\ call.ok

\* C6 as stated: with the reward loss requested, rewardModel accepts a state
\* batch of width state_dim for every ratio in (0, 1] and returns width 2, the
\* width it feeds to the reward network being the width the network was built
\* with (stated for the networks whose first layer has at least one input).
C6_Original ==
    (Called("rewardModel") /\ "reward" \in args.losses
        /\ call.stateWidth = args.state_dim
        /\ obj.reward_net.in >= 1) =>
        /\ call.ok
        /\ call.width = 2
        /\ call.fed = obj.reward_net.in

\* C7: the forward and inverse heads use the first floor(state_dim * ratio)
\* columns of each state argument, feed their linear layer an input of the
\* width it was built with (floor(state_dim * ratio) + action_dim for forward,
\* 2 * floor(state_dim * ratio) for inverse); forwardModel returns width
\* state_dim and inverseModel width action_dim.
C7_SliceBeforeConcat ==
    /\ (Called("forwardModel") /\ "forward" \in args.losses
           /\ call.stateWidth = args.state_dim) =>
          /\ call.ok
          /\ call.used = FloorRatio(args.state_dim, args.ratio)
          /\ call.fed = obj.forward_net.in
          /\ call.fed = FloorRatio(args.state_dim, args.ratio) + args.action_dim
          /\ call.width = args.state_dim
    /\ (Called("inverseModel") /\ "inverse" \in args.losses
           /\ call.stateWidth = args.state_dim
           /\ call.nextWidth = args.state_dim) =>
          /\ call.ok
          /\ call.used = FloorRatio(args.state_dim, args.ratio)
          /\ call.fed = obj.inverse_net.in
          /\ call.fed = 2 * FloorRatio(args.state_dim, args.ratio)
          /\ call.width = args.action_dim

\* C7 witness: an inverse head built with a ratio below 1 that cuts columns
\* off a state of width state_dim answered a call
C7_WitnessInverseSliced ==
    /\ Called("inverseModel")
    /\ "inverse" \in args.losses
    /\ call.stateWidth = args.state_dim
    /\ call.nextWidth = args.state_dim
    /\ call.ok
    /\ 0 < call.used
    /\ call.used < args.state_dim

\* C9 as stated: an unrecognized architecture selector makes construction
\* raise, for SupervisedLearning (the run never gets past the constructor)
\* and for SRLModules (no object is returned).
C9_Original ==
    /\ (model_type \notin {"resnet", "mlp"}) =>
          pc \in {"idle", "load_data", "write_config", "construct", "failed"}
    /\ (Constructed /\ args.model_type \notin KnownSRLModelTypes) => ctor # "ok"

(***************************************************************************)
(* The split of learn (lines 69-74): train_test_split(x_indices,           *)
(* true_states, test_size=0.33, random_state=self.seed).  The library      *)
(* takes n_test = ceil(test_size * n) samples for the test side, the rest  *)
(* for the train side, from a permutation of the indices drawn from        *)
(* RandomState(seed): the first n_test entries are the validation indices, *)
(* the next n_train the training indices.                                  *)
(***************************************************************************)
Seeds == {1, 2}

TestPercent == 33

\* a variant of NTest that rounds the test side down instead of up
NTestRoundedDown(n) == (TestPercent * n) \div 100

\* ceil(0.33 * n)
NTest(n) == (TestPercent * n + 99) \div 100

\* train_size=None: the complement of the test side
NTrain(n) == n - NTest(n)

IndexPermutations(n) ==
    {p \in [1..n -> 0..(n - 1)] : \A i, j \in 1..n : i # j => p[i] # p[j]}

\* the permutation RandomState(seed).permutation(n) yields: a fixed function
\* of (seed, n), unknown until first drawn and the same ever after
SeededPermutations(table, seed, n) ==
    IF table[seed] # <<>> THEN {table[seed]} ELSE IndexPermutations(n)

\* lines 73-74: the arrays x_train and x_val cut from the permutation
train_test_split(perm, n) ==
    [status |-> "ok",
     x_val |-> SubSeq(perm, 1, NTest(n)),
     x_train |-> SubSeq(perm, NTest(n) + 1, NTest(n) + NTrain(n))]

SplitRaised == [status |-> "ValueError", x_val |-> <<>>, x_train |-> <<>>]

(***************************************************************************)
(* SpecSplit: learn called up to MaxSplits times per seed on one dataset.  *)
(***************************************************************************)
InitSplit ==
    /\ IdleMain
    /\ IdleModules
    /\ nSamples \in 1..MaxSamples
    /\ rngTable = [s \in Seeds |-> <<>>]
    /\ split = <<>>
    /\ splitLog = [s \in Seeds |-> <<>>]

\* the split returns its two index arrays
SplitReturns ==
    /\ \E seed \in Seeds :
         /\ Len(splitLog[seed]) < MaxSplits
         /\ \E perm \in SeededPermutations(rngTable, seed, nSamples) :
              /\ rngTable' = [rngTable EXCEPT ![seed] = perm]
              /\ split' = train_test_split(perm, nSamples)
              /\ splitLog' = [splitLog EXCEPT ![seed] = Append(@, split')]
    /\ UNCHANGED nSamples
    /\ UNCHANGED <<mainVars, modVars>>

\* a dataset whose train side would be empty: library versions that check it
\* raise a ValueError instead of returning an empty x_train
SplitRaises ==
    /\ NTrain(nSamples) = 0
    /\ split' = SplitRaised
    /\ UNCHANGED <<nSamples, rngTable, splitLog>>
    /\ UNCHANGED <<mainVars, modVars>>

NextSplit ==
    \/ SplitReturns
    \/ SplitRaises

SpecSplit == InitSplit /\ [][NextSplit]_vars

(***************************************************************************)
(* Properties of the split (SpecSplit).                                    *)
(***************************************************************************)
Range(f) == {f[i] : i \in DOMAIN f}
SplitReturned == split # <<>> /\ split.status = "ok"

\* ceil(33 n / 100), stated without the division of NTest
Ceil33(n) == CHOOSE k \in 0..n : 100 * k >= 33 * n /\ 100 * (k - 1) < 33 * n

\* round(0.67 n): the nearest integer (0.67 n is no half-integer for n < 50)
Round67(n) == CHOOSE k \in 0..n : 200 * k - 100 < 134 * n /\ 134 * n < 200 * k + 100

IsPartition(r, n) ==
    /\ Range(r.x_train) \cap Range(r.x_val) = {}
    /\ Range(r.x_train) \cup Range(r.x_val) = 0..(n - 1)
    /\ Cardinality(Range(r.x_train)) = Len(r.x_train)
    /\ Cardinality(Range(r.x_val)) = Len(r.x_val)

Deterministic ==
    \A s \in Seeds : \A i, j \in DOMAIN splitLog[s] : splitLog[s][i] = splitLog[s][j]

\* C8 as stated: the split is deterministic for a fixed seed and partitions
\* 0..N-1 into exactly round(N * 0.67) training and N - round(N * 0.67)
\* validation indices (stated for the splits with a non-empty training side).
C8_Original ==
    (SplitReturned /\ split.x_train # <<>>) =>
        /\ Deterministic
        /\ IsPartition(split, nSamples)
        /\ Len(split.x_train) = Round67(nSamples)
        /\ Len(split.x_val) = nSamples - Round67(nSamples)

\* C8 amended: the split is deterministic for a fixed seed and partitions
\* 0..N-1, with no overlap and no omission, into exactly ceil(N * 0.33)
\* validation indices and N - ceil(N * 0.33) training indices.
C8_SplitSizes ==
    /\ Deterministic
    /\ SplitReturned =>
          /\ IsPartition(split, nSamples)
          /\ Len(split.x_val) = Ceil33(nSamples)
          /\ Len(split.x_train) = nSamples - Ceil33(nSamples)

\* C8 witness: four samples split two and two, a second time with one seed
C8_WitnessFourSamples ==
    /\ SplitReturned
    /\ nSamples = 4
    /\ Len(split.x_train) = 2
    /\ Len(split.x_val) = 2
    /\ \E s \in Seeds : Len(splitLog[s]) = 2

====
